---- MODULE Spec2Model ----
(***************************************************************************)
(* Model of send_daily_wweb.js: the node-cron tick, the dispatch loop      *)
(* sendQuoteToAll, the loaders of the two JSON files and the handlers of   *)
(* the whatsapp-web.js client events and of the process signals.           *)
(*                                                                         *)
(* Node runs one callback at a time.  An action is one run-to-completion   *)
(* segment of the script: from the start of a callback (or from the        *)
(* resumption after an await) to the next await that really suspends.      *)
(* Time is counted in half hours since the Unix epoch, so that the offset  *)
(* of the default timezone (+05:30) is a whole number of units.            *)
(***************************************************************************)
EXTENDS Integers, Sequences, FiniteSets, TLC

\* ---------------------------------------------------------------- bounds
MaxTicks == 2          \* cron ticks in one behaviour

\* ------------------------------------------------------- program constants
UnitsPerDay == 48      \* 1000 * 60 * 60 * 24 ms, in half hours (line 166)
TzOffset == 11         \* 'Asia/Kolkata', UTC+05:30, in half hours (line 158)

VARIABLES
    clientReadyFlag,   \* line 75
    quotesFile,        \* contents of quotes_cloudinary.json (QUOTES_FILE)
    contactsFile,      \* contents of contacts.json (CONTACTS_FILE)
    now,               \* Date.now() as last read, in half hours since the epoch
    ticks,             \* history: one record per cron tick that fired
    runs,              \* one record per call of sendQuoteToAll
    authFailed,        \* history: an auth_failure arrived after the last ready
    procState,         \* "running" | "shutting" (awaiting client.destroy) |
                       \* "exited" (process.exit) | "crashed" (an exception nobody caught)
    currentQR,         \* line 37: the QR data URL, "null" when there is none
    qrPending,         \* the qr payloads whose qrcode.toDataURL is still awaited (line 80)
    qrSeen,            \* history: the qr payloads the client has emitted
    qrSinceReady,      \* history: a qr event arrived after the last ready
    destroy,           \* client.destroy(): "idle" | "pending" | "resolved" | "rejected"
    inbox              \* history: one record per inbound message handled

vars == <<clientReadyFlag, quotesFile, contactsFile, now, ticks, runs,
          authFailed, procState, currentQR, qrPending, qrSeen, qrSinceReady,
          destroy, inbox>>

qrVars == <<qrPending, qrSeen, qrSinceReady>>


\* ------------------------------------------------------------ JSON values
\* A file is [kind, items]: kind "missing" (readFileSync throws), "corrupt"
\* (JSON.parse throws), "nonarray" (valid JSON, not an array) or "array".
File(kind, items) == [kind |-> kind, items |-> items]

\* A quote entry: "N" is JSON null, anything else an object {text, image}.
QuoteFiles ==
    { File("missing", <<>>), File("corrupt", <<>>), File("nonarray", <<>>),
      File("array", <<>>), File("array", <<"A", "B">>),
      File("array", <<"N", "A">>) }

\* A contact entry.  kind "null" is JSON null; ptype is the JSON type of
\* c.phone ("absent" when the key is missing); phone holds the characters of
\* a string phone, or the digits of a number phone.
Contact(kind, ptype, phone) == [kind |-> kind, ptype |-> ptype, phone |-> phone]
NullContact == Contact("null", "absent", <<>>)
NoPhone == Contact("object", "absent", <<>>)
NoDigits == Contact("object", "string", <<"-", "-">>)
NumberPhone == Contact("object", "number", <<"3">>)
Al == Contact("object", "string", <<"1", "1">>)
AlAgain == Contact("object", "string", <<"+", "1", "-", "1">>)
Bo == Contact("object", "string", <<"2">>)

\* the contents of contacts.json a behaviour may start from: a bad entry of
\* each kind followed by a good one, two entries with the same digits, two
\* good entries, and the empty list
ContactLists ==
    { <<>>, <<NullContact, Bo>>, <<NoPhone, Bo>>, <<NoDigits, Bo>>,
      <<NumberPhone, Bo>>, <<Al, AlAgain>>, <<Al, Bo>> }

ContactFiles ==
    { File("missing", <<>>) } \cup { File("array", l) : l \in ContactLists }

DigitChars == { "0", "1", "2", "3", "4", "5", "6", "7", "8", "9" }
IsDigit(ch) == ch \in DigitChars

\* line 144: c.phone.replace(/\D/g, '')
Digits(phone) == SelectSeq(phone, IsDigit)

\* line 143: !c.phone -- a missing key, the empty string and the number 0 are falsy
Truthy(c) ==
    /\ c.ptype # "absent"
    /\ c.phone # <<>>
    /\ ~(c.ptype = "number" /\ c.phone = <<"0">>)

\* lines 110-119: whatever goes wrong with the file, the result is []
safeLoadQuotesFallback(f) ==
    IF f.kind = "array" /\ f.items # <<>> THEN f.items ELSE <<"A">>
safeLoadQuotes(f) == IF f.kind = "array" THEN f.items ELSE <<>>

\* lines 120-129
safeLoadContacts(f) == IF f.kind = "array" THEN f.items ELSE <<>>

\* ------------------------------------------------------------------ time
\* line 166: Math.floor(Date.now() / (1000 * 60 * 60 * 24))
EpochDay(t) == t \div UnitsPerDay

\* the calendar date of instant t in the timezone of the schedule (line 172)
LocalDate(t) == (t + TzOffset) \div UnitsPerDay

\* line 166: ... % quotes.length
dayIndexLocal(t, len) == LocalDate(t) % len
dayIndex(t, len) == EpochDay(t) % len

\* --------------------------------------------------------- sendQuoteToAll
\* A run is one call of sendQuoteToAll:
\*   tick     the number of the tick whose callback made the call
\*   index    the argument, q the entry quotes[index % quotes.length]
\*   contacts the array read at line 134
\*   pos      the position in contacts of the iteration the loop is in
\*            (0: the call threw before the loop)
\*   pc       "sending": suspended at the await of line 147;
\*            "done": returned; "aborted": left by an exception
\*   log      the per-recipient lines written (lines 143, 148, 150), in order
\*   sends    the calls of client.sendMessage made (line 147), in order; `listed`
\*            records whether contacts.json still held the entry at the call

\* line 141: `for (const c of contacts)` iterates the array read at line 134;
\* the file as it is now (cf) is not consulted again
CurrentContactReread(r, cf) ==
    LET l == safeLoadContacts(cf) IN
    IF r.pos <= Len(l) THEN l[r.pos] ELSE NullContact
CurrentContact(r, cf) == r.contacts[r.pos]

\* line 146: phoneDigits + '@c.us' (the suffix is the same for every chat)
chatIdFirst(r, c) == Digits(r.contacts[1].phone)
chatId(r, c) == Digits(c.phone)

InFile(c, cf) ==
    LET l == safeLoadContacts(cf) IN \E j \in 1..Len(l) : l[j] = c

Logged(r, kind) == [r EXCEPT !.log = Append(@, [i |-> r.pos, kind |-> kind])]

FailuresAt(r, i) ==
    Cardinality({ n \in 1..Len(r.log) : r.log[n] = [i |-> i, kind |-> "failed"] })

\* lines 149-151: the catch block logs and the loop goes on with the next contact
afterFailureRetry(r) ==
    IF FailuresAt(r, r.pos) < 3 THEN r ELSE [r EXCEPT !.pos = @ + 1]
afterFailure(r) == [r EXCEPT !.pos = @ + 1]

\* line 147: the call of client.sendMessage is awaited, so the loop is
\* suspended until the send settles
sendNotAwaited(r) == FALSE
sendAwaited(r) == TRUE

\* lines 141-152, from the top of the iteration at r.pos to the next await
\* (or to the end of the loop, or to the exception that leaves it)
RECURSIVE forLoop(_, _)
forLoop(r, cf) ==
    IF r.pos > Len(r.contacts)
    THEN [r EXCEPT !.pc = "done"]
    ELSE LET c == CurrentContact(r, cf) IN
         IF c.kind = "null"
         THEN \* c.phone throws a TypeError (line 143); in the catch block
              \* c.name throws again (line 150), which leaves the loop
              [r EXCEPT !.pc = "aborted"]
         ELSE IF ~Truthy(c)
         THEN \* line 143: log 'Skipping contact missing phone', continue
              forLoop([Logged(r, "skipped") EXCEPT !.pos = @ + 1], cf)
         ELSE IF c.ptype # "string"
         THEN \* line 144: c.phone.replace is not a function; caught at 149
              forLoop(afterFailure(Logged(r, "failed")), cf)
         ELSE IF Digits(c.phone) = <<>>
         THEN \* line 145: continue, nothing logged
              forLoop([r EXCEPT !.pos = @ + 1], cf)
         ELSE \* line 147: client.sendMessage is called and awaited
              LET called == [r EXCEPT !.sends =
                                Append(@, [i |-> r.pos, to |-> chatId(r, c),
                                           listed |-> InFile(c, cf)])]
              IN  IF sendAwaited(r)
                  THEN [called EXCEPT !.pc = "sending"]
                  ELSE forLoop([called EXCEPT !.pos = @ + 1], cf)

\* lines 148-152 and 141: once the outcome is logged the loop goes straight
\* on with the next contact; there is no timer between two iterations
resumePaused(r, cf) == [r EXCEPT !.pc = "paused"]
resume(r, cf) == forLoop(r, cf)

\* lines 149-151: a failed send is logged and nothing else; contacts.json is
\* left as it is
storePruned(cf, r) ==
    IF cf.kind = "array"
    THEN [cf EXCEPT !.items = SelectSeq(@, LAMBDA c : c # r.contacts[r.pos])]
    ELSE cf
storeAfterFailure(cf, r) == cf

\* lines 132-153: the call, up to its first await.  The result is the
\* sequence of runs the call adds: none when it returns at line 137.
sendQuoteToAll(index, tickNo, qf, cf) ==
    LET quotes == safeLoadQuotes(qf)
        contacts == safeLoadContacts(cf)
    IN  IF Len(quotes) = 0
        THEN <<>>
        ELSE LET q == quotes[(index % Len(quotes)) + 1]
                 r0 == [tick |-> tickNo, index |-> index, q |-> q,
                        contacts |-> contacts, pos |-> 1, pc |-> "sending",
                        log |-> <<>>, sends |-> <<>>]
             IN  IF q = "N"
                 THEN \* line 140: q.text throws a TypeError on null
                      << [r0 EXCEPT !.pc = "aborted", !.pos = 0] >>
                 ELSE << forLoop(r0, cf) >>

\* ------------------------------------------------------------- scheduler
Alive == procState \in { "running", "shutting" }

\* line 162: the gate of the cron callback
gateOpen(flag) == TRUE
gate(flag) == flag

\* lines 169-171: what sendQuoteToAll throws is caught in the cron callback
\* and logged as 'Scheduled run error'; the process goes on
scheduledRunErrorUncaught(p) == "crashed"
scheduledRunError(p) == p

\* lines 167-171: the state of the process once the callbacks of the runs rs
\* went on after `await sendQuoteToAll(dayIndex)`, or stay suspended there
afterAwait(rs, p) ==
    IF \E n \in 1..Len(rs) : rs[n].pc = "aborted" THEN scheduledRunError(p) ELSE p

\* the time between two ticks (the schedule is configurable, line 157):
\* 6 h 30 min
TickGaps == { 13 }

\* lines 160-172: the cron callback, up to its first await
Tick(gap) ==
    /\ Alive
    /\ Len(ticks) < MaxTicks
    /\ now' = now + gap
    /\ LET n == Len(ticks) + 1
           quotes == safeLoadQuotes(quotesFile)
           rec(res) == [at |-> now', ready |-> clientReadyFlag,
                        authFailed |-> authFailed, len |-> Len(quotes),
                        result |-> res]
           started == sendQuoteToAll(dayIndex(now', Len(quotes)), n,
                                     quotesFile, contactsFile)
       IN  IF ~gate(clientReadyFlag)
           THEN \* line 162
                /\ ticks' = Append(ticks, rec("skipped"))
                /\ UNCHANGED <<runs, procState>>
           ELSE IF Len(quotes) = 0
           THEN \* line 165
                /\ ticks' = Append(ticks, rec("noquotes"))
                /\ UNCHANGED <<runs, procState>>
           ELSE \* lines 166-167
                /\ ticks' = Append(ticks, rec("run"))
                /\ runs' = runs \o started
                /\ procState' = afterAwait(started, procState)
    /\ UNCHANGED <<clientReadyFlag, quotesFile, contactsFile, authFailed, currentQR>>
    /\ UNCHANGED <<qrVars, destroy, inbox>>

\* lines 147-151: client.sendMessage settles for run k; the loop resumes
SendSettles(k, ok) ==
    /\ Alive
    /\ k \in 1..Len(runs)
    /\ runs[k].pc = "sending"
    /\ LET r == runs[k]
           next == IF ok
                   THEN \* line 148
                        [Logged(r, "sent") EXCEPT !.pos = @ + 1]
                   ELSE \* lines 149-151
                        afterFailure(Logged(r, "failed"))
           resumed == resume(next, contactsFile)
       IN  /\ runs' = [runs EXCEPT ![k] = resumed]
           /\ procState' = afterAwait(<<resumed>>, procState)
           /\ contactsFile' = IF ok THEN contactsFile
                                    ELSE storeAfterFailure(contactsFile, r)
    /\ UNCHANGED <<clientReadyFlag, quotesFile, now, ticks, authFailed, currentQR>>
    /\ UNCHANGED <<qrVars, destroy, inbox>>

\* ---------------------------------------------------------- client events
\* lines 88-93
Ready ==
    /\ Alive
    /\ clientReadyFlag' = TRUE
    /\ currentQR' = "null"
    /\ authFailed' = FALSE
    /\ qrSinceReady' = FALSE
    /\ UNCHANGED <<quotesFile, contactsFile, now, ticks, runs, procState>>
    /\ UNCHANGED <<qrPending, qrSeen, destroy, inbox>>

\* lines 96-98: the handler only logs
AuthFailure ==
    /\ Alive
    /\ authFailed' = TRUE
    /\ UNCHANGED <<clientReadyFlag, quotesFile, contactsFile, now, ticks, runs,
                   procState, currentQR>>
    /\ UNCHANGED <<qrVars, destroy, inbox>>

\* ------------------------------------------------------------ environment
RemoveAt(s, i) == SubSeq(s, 1, i - 1) \o SubSeq(s, i + 1, Len(s))

\* contacts.json is rewritten without entry i (README line 97: a contact is
\* unsubscribed by removing it from contacts.json)
RemoveContact(i) ==
    /\ Alive
    /\ contactsFile.kind = "array"
    /\ i \in 1..Len(contactsFile.items)
    /\ contactsFile' = [contactsFile EXCEPT !.items = RemoveAt(@, i)]
    /\ UNCHANGED <<clientReadyFlag, quotesFile, now, ticks, runs, authFailed,
                   procState, currentQR>>
    /\ UNCHANGED <<qrVars, destroy, inbox>>

\* ---------------------------------------------------------------- signals
\* lines 193-195 and 198-200: SIGINT or SIGTERM; the handler logs, calls
\* client.destroy() and awaits it
Signal ==
    /\ Alive
    /\ procState' = "shutting"
    /\ destroy' = "pending"
    /\ UNCHANGED <<clientReadyFlag, quotesFile, contactsFile, now, ticks, runs,
                   authFailed, currentQR, qrVars, inbox>>

\* lines 195 and 200: `try { await client.destroy(); } catch(e){}` swallows a
\* rejection, so the handler goes on to process.exit(0) either way
afterDestroyUncaught(ok) == IF ok THEN "exited" ELSE "crashed"
afterDestroy(ok) == "exited"

\* lines 195-196 and 200-201: client.destroy() settles, then process.exit(0)
Exit(ok) ==
    /\ procState = "shutting"
    /\ destroy' = IF ok THEN "resolved" ELSE "rejected"
    /\ procState' = afterDestroy(ok)
    /\ UNCHANGED <<clientReadyFlag, quotesFile, contactsFile, now, ticks, runs,
                   authFailed, currentQR, qrVars, inbox>>

\* --------------------------------------------------------------- qr events
QrPayloads == { "qr1", "qr2" }

\* line 80: qrcode.toDataURL(qr), the PNG data URL that encodes the payload
toDataURL(qr) == IF qr = "qr1" THEN "data:image/png,qr1" ELSE "data:image/png,qr2"

\* lines 78-80: the client emits a new qr payload; the handler calls
\* qrcode.toDataURL and is suspended at the await
QrEvent(qr) ==
    /\ Alive
    /\ qr \notin qrSeen
    /\ qrSeen' = qrSeen \cup { qr }
    /\ qrPending' = qrPending \cup { qr }
    /\ qrSinceReady' = TRUE
    /\ UNCHANGED <<clientReadyFlag, quotesFile, contactsFile, now, ticks, runs,
                   authFailed, procState, currentQR, destroy, inbox>>

\* lines 80-84: toDataURL settles; on success the data URL is assigned to
\* currentQR, on failure the error is printed and currentQR is left alone
QrConverted(qr, ok) ==
    /\ Alive
    /\ qr \in qrPending
    /\ qrPending' = qrPending \ { qr }
    /\ currentQR' = IF ok THEN toDataURL(qr) ELSE currentQR
    /\ UNCHANGED <<clientReadyFlag, quotesFile, contactsFile, now, ticks, runs,
                   authFailed, procState, qrSeen, qrSinceReady, destroy, inbox>>

\* ------------------------------------------------------- inbound messages
MaxInbound == 2

\* lines 101-104: require('./unsubscribe_handler') succeeds and
\* registerUnsubscribe(client) attaches the handler to the client; the catch
\* at lines 105-107 is the branch without a handler
unsubscribeNotRegistered == FALSE
unsubscribeRegistered == TRUE

\* the sender addresses of inbound messages and their raw texts
FromAl == <<"1", "1", "@", "c", ".", "u", "s">>
FromBo == <<"2", "@", "c", ".", "u", "s">>
FromOther == <<"3", "@", "c", ".", "u", "s">>
Senders == { FromAl, FromBo, FromOther }

Texts == { <<"S", "T", "O", "P">>,
           <<" ", "S", "t", "o", "p", " ">>,
           <<"s", "t", "o", "p", " ", "i", "t">>,
           <<"S", "t", "a", "r", "t">> }

\* README line 63: the replies that unsubscribe
UnsubscribeKeywords == { <<"s", "t", "o", "p">>,
                         <<"u", "n", "s", "u", "b", "s", "c", "r", "i", "b", "e">> }

ResubscribeKeywords == { <<"s", "t", "a", "r", "t">> }

toLowerChar(ch) ==
    CASE ch = "S" -> "s"
      [] ch = "T" -> "t"
      [] ch = "O" -> "o"
      [] ch = "P" -> "p"
      [] OTHER -> ch

toLowerCase(t) == [i \in 1..Len(t) |-> toLowerChar(t[i])]

RECURSIVE trimStart(_)
trimStart(t) ==
    IF t # <<>> /\ Head(t) = " " THEN trimStart(Tail(t)) ELSE t

RECURSIVE trimEnd(_)
trimEnd(t) ==
    IF t # <<>> /\ t[Len(t)] = " " THEN trimEnd(SubSeq(t, 1, Len(t) - 1)) ELSE t

trim(t) == trimEnd(trimStart(t))

\* the inbound handler's "normalize text: trim, lowercase"
normalize(t) == toLowerCase(trim(t))

\* the inbound handler's classification of a normalized text
classify(t) ==
    IF t \in UnsubscribeKeywords THEN "UNSUBSCRIBE"
    ELSE IF t \in ResubscribeKeywords THEN "RESUBSCRIBE"
    ELSE "IGNORE"

\* a store whose records are subscribers: objects with a string identity that
\* has digits, no two with the same canonical identity
SubscriberStore(cf) ==
    cf.kind = "array" =>
        /\ \A i \in 1..Len(cf.items) :
              /\ cf.items[i].kind = "object"
              /\ cf.items[i].ptype = "string"
              /\ Digits(cf.items[i].phone) # <<>>
        /\ \A i, j \in 1..Len(cf.items) :
              Digits(cf.items[i].phone) = Digits(cf.items[j].phone) => i = j

\* the store's remove(identity): the identity is canonicalized before it is
\* matched; on a match the persisted state is rewritten without the record,
\* on no match the answer is NotFound; an unreadable store is an empty one
remove(cf, identity) ==
    LET items == IF cf.kind = "array" THEN cf.items ELSE <<>>
        same(c) == Digits(c.phone) = Digits(identity)
    IN  IF \E i \in 1..Len(items) : same(items[i])
        THEN [result |-> "Removed",
              store |-> File("array", SelectSeq(items, LAMBDA c : ~same(c)))]
        ELSE [result |-> "NotFound", store |-> cf]

\* the reply the inbound handler attempts after an event
replyFor(intent, result) ==
    IF intent = "UNSUBSCRIBE"
    THEN IF result = "Removed" THEN "confirmation" ELSE "notfound"
    ELSE IF intent = "RESUBSCRIBE" THEN "guidance"
    ELSE "none"

\* the client emits a message event: the handler normalizes and classifies
\* the text, on UNSUBSCRIBE removes the sender from the store, and attempts
\* the reply; `delivered` is the outcome of the reply, which is only logged
InboundMessage(from, text, delivered) ==
    /\ Alive
    /\ Len(inbox) < MaxInbound
    /\ LET intent == IF unsubscribeRegistered THEN classify(normalize(text)) ELSE "NONE"
           res == IF intent = "UNSUBSCRIBE" THEN remove(contactsFile, from)
                  ELSE [result |-> "None", store |-> contactsFile]
           reply == replyFor(intent, res.result)
       IN  /\ contactsFile' = res.store
           /\ inbox' = Append(inbox, [from |-> from, text |-> text, intent |-> intent,
                                      result |-> res.result,
                                      reply |-> reply,
                                      to |-> IF reply = "none" THEN <<>> ELSE from,
                                      delivered |-> reply # "none" /\ delivered,
                                      before |-> contactsFile,
                                      after |-> res.store])
    /\ UNCHANGED <<clientReadyFlag, quotesFile, now, ticks, runs, authFailed,
                   procState, currentQR, qrVars, destroy>>

\* ----------------------------------------------------------- specification
\* the process starts on 2026-11-01 (20758 days after 1970-01-01) at 00:00 UTC
\* (05:30 in Asia/Kolkata) or at 13:00 UTC (18:30 in Asia/Kolkata)
StartTimes == { 20758 * UnitsPerDay, 20758 * UnitsPerDay + 26 }

Init ==
    /\ clientReadyFlag = FALSE
    /\ quotesFile \in QuoteFiles
    /\ contactsFile \in ContactFiles
    /\ now \in StartTimes
    /\ ticks = <<>>
    /\ runs = <<>>
    /\ authFailed = FALSE
    /\ procState = "running"
    /\ currentQR = "null"
    /\ qrPending = { }
    /\ qrSeen = { }
    /\ qrSinceReady = FALSE
    /\ destroy = "idle"
    /\ inbox = <<>>

\* the scheduler, the dispatch runs, the client events and the edits of
\* contacts.json
Next ==
    \/ \E gap \in TickGaps : Tick(gap)
    \/ \E k \in 1..Len(runs) : \E ok \in BOOLEAN : SendSettles(k, ok)
    \/ Ready
    \/ AuthFailure
    \/ \E i \in 1..Len(contactsFile.items) : RemoveContact(i)

Spec == Init /\ [][Next]_vars

\* the scheduler and the dispatch runs with the process signals
NextShutdown ==
    \/ \E gap \in TickGaps : Tick(gap)
    \/ \E k \in 1..Len(runs) : \E ok \in BOOLEAN : SendSettles(k, ok)
    \/ Ready
    \/ Signal
    \/ \E ok \in BOOLEAN : Exit(ok)

SpecShutdown == Init /\ [][NextShutdown]_vars

\* the client events around the pairing: qr, its conversion, ready
NextQr ==
    \/ \E qr \in QrPayloads : QrEvent(qr)
    \/ \E qr \in QrPayloads : \E ok \in BOOLEAN : QrConverted(qr, ok)
    \/ Ready
    \/ AuthFailure

SpecQr == Init /\ [][NextQr]_vars

\* the inbound messages, over the stores whose records are subscribers
InitInbound == Init /\ SubscriberStore(contactsFile)

NextInbound ==
    \E from \in Senders : \E text \in Texts : \E delivered \in BOOLEAN :
        InboundMessage(from, text, delivered)

SpecInbound == InitInbound /\ [][NextInbound]_vars

\* ------------------------------------------------------------------ claims
RunIds == 1..Len(runs)
TickIds == 1..Len(ticks)
TickOf(k) == ticks[runs[k].tick]
SendsAt(r, i) == { a \in 1..Len(r.sends) : r.sends[a].i = i }
OutcomesAt(r, i) == { n \in 1..Len(r.log) : r.log[n].i = i }
Sendable(c) == c.kind = "object" /\ c.ptype = "string" /\ Digits(c.phone) # <<>>
CatalogEmpty == quotesFile.kind # "array" \/ quotesFile.items = <<>>

\* the ordinal day of the year (1 January = 1) of the date d days after
\* 1970-01-01, in the Gregorian calendar
IsLeap(y) == (y % 4 = 0) /\ ((y % 100 # 0) \/ (y % 400 = 0))
YearLen(y) == IF IsLeap(y) THEN 366 ELSE 365
RECURSIVE OrdinalFrom(_, _)
OrdinalFrom(d, y) == IF d < YearLen(y) THEN d + 1 ELSE OrdinalFrom(d - YearLen(y), y + 1)
DayOfYear(d) == OrdinalFrom(d, 1970)

\* C1: a tick that fires while the client is not ready starts no dispatch run,
\* then or later; every dispatch run belongs to exactly one tick, and that
\* tick fired while the client was ready.
C1_NotReadyTickNeverSends ==
    /\ \A n \in TickIds : ~ticks[n].ready =>
          /\ ticks[n].result = "skipped"
          /\ \A k \in RunIds : runs[k].tick # n
    /\ \A k \in RunIds :
          /\ runs[k].tick \in TickIds
          /\ ticks[runs[k].tick].ready
          /\ \A j \in RunIds : runs[j].tick = runs[k].tick => j = k

\* a tick was skipped for want of ready, and a later tick, after ready, sent
C1_Witness ==
    \E n \in TickIds : \E k \in RunIds :
        /\ ~ticks[n].ready
        /\ n < runs[k].tick
        /\ runs[k].sends # <<>>

\* C2: a failure while handling one recipient never stops the run: a run
\* whose loop is over has gone through every recipient of its list.
C2_FailureNeverStopsRun ==
    \A k \in RunIds :
        (runs[k].pc # "sending" /\ runs[k].pos >= 1)
            => runs[k].pos = Len(runs[k].contacts) + 1

\* C3 (as stated): a run that completes has exactly K outcomes, the i-th for
\* recipient i, each success or failure.
C3_ExactlyKOutcomes ==
    \A k \in RunIds : runs[k].pc = "done" =>
        /\ Len(runs[k].log) = Len(runs[k].contacts)
        /\ \A i \in 1..Len(runs[k].log) :
              /\ runs[k].log[i].i = i
              /\ runs[k].log[i].kind \in { "sent", "failed" }

\* the outcomes the loop writes for a recipient record
ExpectedKinds(c) ==
    IF ~Truthy(c) THEN { "skipped" }
    ELSE IF c.ptype # "string" THEN { "failed" }
    ELSE IF Digits(c.phone) = <<>> THEN { }
    ELSE { "sent", "failed" }

\* C3 (amended): a run that completes has at most one outcome per listed
\* recipient: one success or failure when the phone is truthy and not a
\* string without digits (a failure when it is not a string), one 'skipped'
\* line when the phone is missing, and none when the phone has no digit.
C3_OutcomePerRecipientKind ==
    \A k \in RunIds : runs[k].pc = "done" =>
        \A i \in 1..Len(runs[k].contacts) :
            LET c == runs[k].contacts[i]
                o == OutcomesAt(runs[k], i)
            IN  /\ Cardinality(o) = (IF ExpectedKinds(c) = { } THEN 0 ELSE 1)
                /\ \A n \in o : runs[k].log[n].kind \in ExpectedKinds(c)

\* a completed run with fewer outcomes than recipients, one of them a failure
C3_Witness ==
    \E k \in RunIds :
        /\ runs[k].pc = "done"
        /\ Len(runs[k].log) < Len(runs[k].contacts)
        /\ \E n \in 1..Len(runs[k].log) : runs[k].log[n].kind = "failed"

\* C4 (as stated): within one run no digits-only identity is sent to twice.
C4_NoIdentitySentTwice ==
    \A k \in RunIds : \A a, b \in 1..Len(runs[k].sends) :
        runs[k].sends[a].to = runs[k].sends[b].to => a = b

\* C4 (amended): within one run an identity is sent to at most once per
\* listed record that normalizes to it.
C4_SendsPerIdentityBounded ==
    \A k \in RunIds : \A a \in 1..Len(runs[k].sends) :
        LET d == runs[k].sends[a].to IN
        Cardinality({ b \in 1..Len(runs[k].sends) : runs[k].sends[b].to = d })
            <= Cardinality({ i \in 1..Len(runs[k].contacts) :
                               /\ Sendable(runs[k].contacts[i])
                               /\ Digits(runs[k].contacts[i].phone) = d })

\* a run sent twice to one identity
C4_Witness ==
    \E k \in RunIds : \E a, b \in 1..Len(runs[k].sends) :
        a # b /\ runs[k].sends[a].to = runs[k].sends[b].to

\* C5 (as stated): a recipient is recorded as failed only after 3 send attempts.
C5_FailedAfterThreeAttempts ==
    \A k \in RunIds : \A n \in 1..Len(runs[k].log) :
        (runs[k].log[n].kind = "failed" /\ Sendable(runs[k].contacts[runs[k].log[n].i]))
            => Cardinality(SendsAt(runs[k], runs[k].log[n].i)) = 3

\* C5 (amended): a send that fails is not attempted again: the recipient is
\* recorded as failed after its single attempt, and no recipient has more
\* than one attempt in a run.
C5_FailedAfterOneAttempt ==
    \A k \in RunIds :
        /\ \A i \in 1..Len(runs[k].contacts) : Cardinality(SendsAt(runs[k], i)) <= 1
        /\ \A n \in 1..Len(runs[k].log) :
              (runs[k].log[n].kind = "failed"
                  /\ Sendable(runs[k].contacts[runs[k].log[n].i]))
                  => /\ Cardinality(SendsAt(runs[k], runs[k].log[n].i)) = 1
                     /\ Cardinality(OutcomesAt(runs[k], runs[k].log[n].i)) = 1

\* a send failed and the run went on to the next recipient
C5_Witness ==
    \E k \in RunIds :
        /\ Len(runs[k].log) >= 1
        /\ runs[k].log[1].kind = "failed"
        /\ Sendable(runs[k].contacts[1])
        /\ runs[k].pos > 1

\* C6 (as stated): the index a tick dispatches is the ordinal day of the year
\* of the tick's calendar date, modulo the catalog length.
C6_IndexIsDayOfYearModLen ==
    \A k \in RunIds :
        runs[k].index = DayOfYear(LocalDate(TickOf(k).at)) % Len(quotesFile.items)

\* C6 (amended): the index a tick dispatches is the number of whole days
\* from the Unix epoch (UTC) to the tick instant, modulo the catalog length,
\* and the run sends the catalog entry at that index.
C6_IndexIsEpochDayModLen ==
    \A k \in RunIds :
        /\ runs[k].index = (TickOf(k).at \div UnitsPerDay) % Len(quotesFile.items)
        /\ runs[k].q = quotesFile.items[runs[k].index + 1]

\* a run whose index is not that of the ordinal day of the year
C6_Witness ==
    \E k \in RunIds :
        /\ runs[k].index # DayOfYear(LocalDate(TickOf(k).at)) % Len(quotesFile.items)
        /\ runs[k].sends # <<>>

\* C7: two ticks on the same calendar date of the configured timezone, with
\* the same catalog, dispatch the same content item.
C7_SameLocalDateSameItem ==
    \A j, k \in RunIds :
        LocalDate(TickOf(j).at) = LocalDate(TickOf(k).at) => runs[j].q = runs[k].q

\* C8: with a catalog that is empty, missing, unparsable or not an array, no
\* tick starts a run or sends; the tick ends at 'No quotes to send' and the
\* process keeps running.
C8_EmptyCatalogNoSend ==
    CatalogEmpty =>
        /\ runs = <<>>
        /\ \A n \in TickIds : ticks[n].ready => ticks[n].result = "noquotes"
        /\ procState = "running"

\* a tick fired with the client ready and an unparsable catalog
C8_Witness ==
    \E n \in TickIds :
        /\ quotesFile.kind = "corrupt"
        /\ ticks[n].ready
        /\ ticks[n].result = "noquotes"

\* C9: no dispatch run is started by a tick that fires after an auth_failure
\* and before the next ready; the process is running after the auth_failure.
C9_AuthFailureSkipsTicks ==
    /\ \A k \in RunIds : ~TickOf(k).authFailed
    /\ authFailed => procState = "running"

\* C10: a run processes the recipients of the list read at its start, whatever
\* happens to contacts.json meanwhile: it has sent to exactly the sendable
\* entries of that list up to its position, each at the entry's own digits,
\* and it is not aborted except at a null entry of that list.
C10_RunUsesSnapshot ==
    \A k \in RunIds : runs[k].pos >= 1 =>
        LET r == runs[k]
            K == Len(r.contacts)
        IN  /\ { r.sends[a].i : a \in 1..Len(r.sends) }
                  = { i \in 1..K : i <= r.pos /\ Sendable(r.contacts[i]) }
            /\ \A a \in 1..Len(r.sends) :
                  r.sends[a].to = Digits(r.contacts[r.sends[a].i].phone)
            /\ r.pc = "aborted" => (r.pos <= K /\ r.contacts[r.pos].kind = "null")
            /\ r.pc = "done" => r.pos = K + 1

\* a run completed after sending to an entry that had been removed from
\* contacts.json before the send
C10_Witness ==
    \E k \in RunIds : \E a \in 1..Len(runs[k].sends) :
        /\ runs[k].pc = "done"
        /\ ~runs[k].sends[a].listed
        /\ [i |-> runs[k].sends[a].i, kind |-> "sent"] \in
              { runs[k].log[n] : n \in 1..Len(runs[k].log) }

\* C14: within one run the sends are issued in listed order and one at a
\* time: every send but the last has its outcome logged, and the last one is
\* the only send that can be in flight, while the run is suspended on it.
C14_SendsSequentialInOrder ==
    \A k \in RunIds :
        LET r == runs[k] IN
        /\ \A a, b \in 1..Len(r.sends) : a < b => r.sends[a].i < r.sends[b].i
        /\ \A a \in 1..Len(r.sends) :
              OutcomesAt(r, r.sends[a].i) = { } =>
                  (a = Len(r.sends) /\ r.pc = "sending" /\ r.pos = r.sends[a].i)

\* a run has logged the outcome of its first send and is suspended on its second
C14_Witness ==
    \E k \in RunIds :
        /\ Len(runs[k].sends) = 2
        /\ runs[k].pc = "sending"
        /\ OutcomesAt(runs[k], runs[k].sends[1].i) # { }

\* C15 (as stated): a pause step lies between the completion of one send and
\* the start of the next: no single step of a run both logs the outcome of a
\* send and issues the next send.
C15_PauseBetweenSends ==
    [][\A k \in RunIds :
          ~(/\ Len(runs'[k].log) > Len(runs[k].log)
            /\ Len(runs'[k].sends) > Len(runs[k].sends))]_vars

\* C15 (amended): there is no pause between sends: when a send settles and the
\* next listed recipient is sendable, the send to it is issued in the same
\* step, and a run is never at rest between two sends.
C15_NextSendIssuedAtOnce ==
    [][\A k \in RunIds :
          LET r == runs[k] IN
          (/\ Len(runs'[k].log) > Len(r.log)
           /\ r.pos < Len(r.contacts)
           /\ Sendable(r.contacts[r.pos + 1]))
              => /\ Len(runs'[k].sends) = Len(r.sends) + 1
                 /\ runs'[k].sends[Len(runs'[k].sends)].i = r.pos + 1
                 /\ runs'[k].pc = "sending"]_vars

\* a run has issued the send to its second recipient
C15_Witness ==
    \E k \in RunIds : \E a \in 1..Len(runs[k].sends) :
        /\ runs[k].sends[a].i = 2
        /\ Len(runs[k].sends) = 2

\* C16: an error thrown inside a scheduled run is caught in the cron callback:
\* the process is still running, and every tick that fired with the client
\* ready and a non-empty catalog has started a dispatch run.
C16_RunErrorNeverStopsScheduler ==
    /\ procState = "running"
    /\ \A n \in TickIds :
          (ticks[n].ready /\ ~CatalogEmpty) =>
              /\ ticks[n].result = "run"
              /\ \E k \in RunIds : runs[k].tick = n

\* a run was left by an exception, and a later tick started another run
C16_Witness ==
    \E j, k \in RunIds :
        /\ runs[j].pc = "aborted"
        /\ runs[j].pos = 0
        /\ runs[k].tick > runs[j].tick

\* C17: at most one dispatch run is in progress at any time.
C17_AtMostOneRunInProgress ==
    Cardinality({ k \in RunIds : runs[k].pc = "sending" }) <= 1

\* C19: a step of the scheduler or of a dispatch run (a tick, or the settling
\* of a send) changes neither contacts.json, nor the catalog, nor the ready flag.
C19_RunLeavesStoreCatalogFlag ==
    [][(ticks' # ticks \/ runs' # runs) =>
          /\ contactsFile' = contactsFile
          /\ quotesFile' = quotesFile
          /\ clientReadyFlag' = clientReadyFlag]_vars

\* a run has completed with one send failed and another delivered
C19_Witness ==
    \E k \in RunIds :
        /\ runs[k].pc = "done"
        /\ \E n, m \in 1..Len(runs[k].log) :
              runs[k].log[n].kind = "failed" /\ runs[k].log[m].kind = "sent"

\* C13: the process exits only after client.destroy() was called and has
\* settled, and it exits (code 0) whether destroy resolved or rejected.
C13_DestroyBeforeExit ==
    /\ procState = "exited" => destroy \in { "resolved", "rejected" }
    /\ destroy \in { "resolved", "rejected" } => procState = "exited"
    /\ procState = "shutting" => destroy = "pending"
    /\ procState = "running" => destroy = "idle"

\* the process has exited after client.destroy() threw
C13_Witness ==
    procState = "exited" /\ destroy = "rejected"

\* C18: while the client is ready and no qr event has arrived since the ready
\* event, no QR is stored.
C18_NoStaleQrWhileReady ==
    (clientReadyFlag /\ ~qrSinceReady) => currentQR = "null"

\* the records of a store file, none when it is unreadable
StoreItems(cf) == IF cf.kind = "array" THEN cf.items ELSE <<>>

\* the sender has a record in the store
Subscribed(from, cf) ==
    \E i \in 1..Len(StoreItems(cf)) : Digits(StoreItems(cf)[i].phone) = Digits(from)

\* the inbound events whose text is STOP, whatever its case and padding
UnsubscribeEvents ==
    { n \in 1..Len(inbox) :
        inbox[n].text \in { <<"S", "T", "O", "P">>, <<" ", "S", "t", "o", "p", " ">> } }

====
